---- MODULE Spec2Model ----
(***************************************************************************)
(* Customer search agent: the multi-source answer synthesis pipeline.      *)
(*   main.py                         invoke, validate_search_query,        *)
(*                                   validate_user_id                      *)
(*   services/knowledge_retrieval.py KnowledgeRetrievalService             *)
(*   services/personalisation.py     PersonalisationService                *)
(*   config.py, models/data_models.py                                      *)
(*                                                                         *)
(* A Python str is a sequence of characters and a character is a           *)
(* one-character TLA+ string; the two characters below have no TLA+        *)
(* escape and are written as named tokens.  A Python value whose type the  *)
(* code inspects (payload fields, Optional values) is a record with a      *)
(* "type" field, as built by PyStr, PyInt, PyNone, PyDict.                 *)
(***************************************************************************)
EXTENDS Integers, Sequences, FiniteSets, TLC

\* U+0001 START OF HEADING: ord < 32, not whitespace
SOH == "^A"
\* U+00E9 LATIN SMALL LETTER E WITH ACUTE: str.isalnum() is True, not ASCII
EACUTE == "U+00E9"

\* ord(): the code points of the characters the model uses
CodePoint ==
    SOH :> 1 @@ "\t" :> 9 @@ "\n" :> 10 @@ "\f" :> 12 @@ "\r" :> 13 @@ " " :> 32 @@
    "!" :> 33 @@ "\"" :> 34 @@ "#" :> 35 @@ "$" :> 36 @@ "%" :> 37 @@ "&" :> 38 @@ "'" :> 39 @@
    "(" :> 40 @@ ")" :> 41 @@ "*" :> 42 @@ "+" :> 43 @@ "," :> 44 @@ "-" :> 45 @@ "." :> 46 @@
    "/" :> 47 @@ "0" :> 48 @@ "1" :> 49 @@ "2" :> 50 @@ "3" :> 51 @@ "4" :> 52 @@ "5" :> 53 @@
    "6" :> 54 @@ "7" :> 55 @@ "8" :> 56 @@ "9" :> 57 @@ ":" :> 58 @@ ";" :> 59 @@ "<" :> 60 @@
    "=" :> 61 @@ ">" :> 62 @@ "?" :> 63 @@ "@" :> 64 @@ "A" :> 65 @@ "B" :> 66 @@ "C" :> 67 @@
    "D" :> 68 @@ "E" :> 69 @@ "F" :> 70 @@ "G" :> 71 @@ "H" :> 72 @@ "I" :> 73 @@ "J" :> 74 @@
    "K" :> 75 @@ "L" :> 76 @@ "M" :> 77 @@ "N" :> 78 @@ "O" :> 79 @@ "P" :> 80 @@ "Q" :> 81 @@
    "R" :> 82 @@ "S" :> 83 @@ "T" :> 84 @@ "U" :> 85 @@ "V" :> 86 @@ "W" :> 87 @@ "X" :> 88 @@
    "Y" :> 89 @@ "Z" :> 90 @@ "[" :> 91 @@ "\\" :> 92 @@ "]" :> 93 @@ "^" :> 94 @@ "_" :> 95 @@
    "a" :> 97 @@ "b" :> 98 @@ "c" :> 99 @@ "d" :> 100 @@ "e" :> 101 @@ "f" :> 102 @@
    "g" :> 103 @@ "h" :> 104 @@ "i" :> 105 @@ "j" :> 106 @@ "k" :> 107 @@ "l" :> 108 @@
    "m" :> 109 @@ "n" :> 110 @@ "o" :> 111 @@ "p" :> 112 @@ "q" :> 113 @@ "r" :> 114 @@
    "s" :> 115 @@ "t" :> 116 @@ "u" :> 117 @@ "v" :> 118 @@ "w" :> 119 @@ "x" :> 120 @@
    "y" :> 121 @@ "z" :> 122 @@ "{" :> 123 @@ "|" :> 124 @@ "}" :> 125 @@ "~" :> 126 @@
    EACUTE :> 233


ord(c) == CodePoint[c]

chr(n) == CHOOSE c \in DOMAIN CodePoint : CodePoint[c] = n

\* str.isspace() of one character (the whitespace str.strip() removes)
isspace(c) == c \in {" ", "\t", "\n", "\r", "\f"}

\* str.isalnum() of one character: Unicode letters and digits
isalnum(c) ==
    \/ ord(c) \in 48..57
    \/ ord(c) \in 65..90
    \/ ord(c) \in 97..122
    \/ c = EACUTE

\* str.lower() of one character
lower_char(c) == IF ord(c) \in 65..90 THEN chr(ord(c) + 32) ELSE c

lower(s) == [i \in 1..Len(s) |-> lower_char(s[i])]

RECURSIVE lstrip_index(_, _, _)
lstrip_index(s, chars, i) ==
    IF i > Len(s) \/ s[i] \notin chars THEN i ELSE lstrip_index(s, chars, i + 1)

RECURSIVE rstrip_index(_, _, _)
rstrip_index(s, chars, n) ==
    IF n = 0 \/ s[n] \notin chars THEN n ELSE rstrip_index(s, chars, n - 1)

\* str.strip(chars): drop the leading and trailing characters that are in chars
strip_chars(s, chars) ==
    SubSeq(s, lstrip_index(s, chars, 1), rstrip_index(s, chars, Len(s)))

Whitespace == {c \in DOMAIN CodePoint : isspace(c)}

\* str.strip()
strip(s) == strip_chars(s, Whitespace)

\* str.startswith(prefix)
startswith(s, prefix) ==
    Len(s) >= Len(prefix) /\ SubSeq(s, 1, Len(prefix)) = prefix

\* a string of n copies of the character c
Rep(c, n) == [i \in 1..n |-> c]

(***************************************************************************)
(* Fixed texts of the program                                              *)
(***************************************************************************)
\* "No AI summary could be found for the specified query"  (main.py:240, knowledge_retrieval.py:53)
NO_SUMMARY ==
    <<"N","o"," ","A","I"," ","s","u","m","m","a","r","y"," ","c","o","u","l","d"," ","b","e",
      " ","f","o","u","n","d"," ","f","o","r"," ","t","h","e"," ","s","p","e","c","i","f","i",
      "e","d"," ","q","u","e","r","y">>

\* "Service configuration error. Please contact support."  (main.py:174)
CONFIG_ERROR ==
    <<"S","e","r","v","i","c","e"," ","c","o","n","f","i","g","u","r","a","t","i","o","n"," ",
      "e","r","r","o","r","."," ","P","l","e","a","s","e"," ","c","o","n","t","a","c","t"," ",
      "s","u","p","p","o","r","t",".">>

\* "Invalid request format. Please check your input parameters."  (main.py:181)
FORMAT_ERROR ==
    <<"I","n","v","a","l","i","d"," ","r","e","q","u","e","s","t"," ","f","o","r","m","a","t",
      "."," ","P","l","e","a","s","e"," ","c","h","e","c","k"," ","y","o","u","r"," ","i","n",
      "p","u","t"," ","p","a","r","a","m","e","t","e","r","s",".">>

\* "Request parsing failed. Please try again."  (main.py:184)
PARSE_ERROR ==
    <<"R","e","q","u","e","s","t"," ","p","a","r","s","i","n","g"," ","f","a","i","l","e","d",
      "."," ","P","l","e","a","s","e"," ","t","r","y"," ","a","g","a","i","n",".">>

\* "An unexpected error occurred while processing your request. Please try again."  (main.py:258)
UNEXPECTED_ERROR ==
    <<"A","n"," ","u","n","e","x","p","e","c","t","e","d"," ","e","r","r","o","r"," ","o","c",
      "c","u","r","r","e","d"," ","w","h","i","l","e"," ","p","r","o","c","e","s","s","i","n",
      "g"," ","y","o","u","r"," ","r","e","q","u","e","s","t","."," ","P","l","e","a","s","e",
      " ","t","r","y"," ","a","g","a","i","n",".">>

\* "Invalid input: "  (main.py:201)
INVALID_INPUT ==
    <<"I","n","v","a","l","i","d"," ","i","n","p","u","t",":"," ">>

\* "Search query must be a non-empty string"  (main.py:100)
QUERY_NOT_STRING ==
    <<"S","e","a","r","c","h"," ","q","u","e","r","y"," ","m","u","s","t"," ","b","e"," ","a",
      " ","n","o","n","-","e","m","p","t","y"," ","s","t","r","i","n","g">>

\* "Search query cannot be empty"  (main.py:105)
QUERY_EMPTY ==
    <<"S","e","a","r","c","h"," ","q","u","e","r","y"," ","c","a","n","n","o","t"," ","b","e",
      " ","e","m","p","t","y">>

\* "Search query too long (maximum 1000 characters)"  (main.py:108)
QUERY_TOO_LONG ==
    <<"S","e","a","r","c","h"," ","q","u","e","r","y"," ","t","o","o"," ","l","o","n","g"," ",
      "(","m","a","x","i","m","u","m"," ","1","0","0","0"," ","c","h","a","r","a","c","t","e",
      "r","s",")">>

\* "User ID must be a string"  (main.py:130)
USER_ID_NOT_STRING ==
    <<"U","s","e","r"," ","I","D"," ","m","u","s","t"," ","b","e"," ","a"," ","s","t","r","i",
      "n","g">>

\* "User ID cannot be empty"  (main.py:134)
USER_ID_EMPTY ==
    <<"U","s","e","r"," ","I","D"," ","c","a","n","n","o","t"," ","b","e"," ","e","m","p","t",
      "y">>

\* "User ID too long (maximum 255 characters)"  (main.py:137)
USER_ID_TOO_LONG ==
    <<"U","s","e","r"," ","I","D"," ","t","o","o"," ","l","o","n","g"," ","(","m","a","x","i",
      "m","u","m"," ","2","5","5"," ","c","h","a","r","a","c","t","e","r","s",")">>

\* "User ID contains invalid characters (only alphanumeric, hyphens, and underscores allowed)"  (main.py:141)
USER_ID_BAD_CHARS ==
    <<"U","s","e","r"," ","I","D"," ","c","o","n","t","a","i","n","s"," ","i","n","v","a","l",
      "i","d"," ","c","h","a","r","a","c","t","e","r","s"," ","(","o","n","l","y"," ","a","l",
      "p","h","a","n","u","m","e","r","i","c",","," ","h","y","p","h","e","n","s",","," ","a",
      "n","d"," ","u","n","d","e","r","s","c","o","r","e","s"," ","a","l","l","o","w","e","d",
      ")">>

\* "strands_agent_with_mcp_tools"  (personalisation.py:144)
AGENT_TOOL ==
    <<"s","t","r","a","n","d","s","_","a","g","e","n","t","_","w","i","t","h","_","m","c","p",
      "_","t","o","o","l","s">>

\* "http://"  (knowledge_retrieval.py:230)
HTTP ==
    <<"h","t","t","p",":","/","/">>

\* "https://"  (knowledge_retrieval.py:230)
HTTPS ==
    <<"h","t","t","p","s",":","/","/">>

\* "no information found", "no relevant information", "i don't have information", "no data available"  (knowledge_retrieval.py:144-149)
NO_INFORMATION_PHRASES ==
    <<
      <<"n","o"," ","i","n","f","o","r","m","a","t","i","o","n"," ","f","o","u","n","d">>,
      <<"n","o"," ","r","e","l","e","v","a","n","t"," ","i","n","f","o","r","m","a","t","i","o",
        "n">>,
      <<"i"," ","d","o","n","'","t"," ","h","a","v","e"," ","i","n","f","o","r","m","a","t","i",
        "o","n">>,
      <<"n","o"," ","d","a","t","a"," ","a","v","a","i","l","a","b","l","e">>
    >>

\* "search results", "based on the search results", "according to the search results", "from the search results"  (knowledge_retrieval.py:300-305)
unwanted_phrases ==
    <<
      <<"s","e","a","r","c","h"," ","r","e","s","u","l","t","s">>,
      <<"b","a","s","e","d"," ","o","n"," ","t","h","e"," ","s","e","a","r","c","h"," ","r","e",
        "s","u","l","t","s">>,
      <<"a","c","c","o","r","d","i","n","g"," ","t","o"," ","t","h","e"," ","s","e","a","r","c",
        "h"," ","r","e","s","u","l","t","s">>,
      <<"f","r","o","m"," ","t","h","e"," ","s","e","a","r","c","h"," ","r","e","s","u","l","t",
        "s">>
    >>

\* "url", "uri", "link", "source"  (knowledge_retrieval.py:229)
METADATA_URL_KEYS ==
    <<
      <<"u","r","l">>,
      <<"u","r","i">>,
      <<"l","i","n","k">>,
      <<"s","o","u","r","c","e">>
    >>

(***************************************************************************)
(* Python values                                                           *)
(***************************************************************************)
PyStr(s) == [type |-> "str", v |-> s]

PyInt(n) == [type |-> "int", v |-> n]

PyNone == [type |-> "NoneType"]

\* a dict is a function from its keys to its values; {} is the empty function
PyDict(d) == [type |-> "dict", v |-> d]

EmptyDict == <<>>

\* dict.get(key, default)
Get(d, key, default) == IF key \in DOMAIN d THEN d[key] ELSE default

\* bool(x) as "if x:" and "not x" evaluate it
Truthy(x) ==
    CASE x.type = "str" -> x.v # <<>>
      [] x.type = "int" -> x.v # 0
      [] x.type = "NoneType" -> FALSE
      [] x.type = "dict" -> DOMAIN x.v # {}
      [] OTHER -> TRUE

\* the outcome of a call: a returned value or a raised exception
Return(value) == [raised |-> FALSE, value |-> value]

Raise(exc, msg) == [raised |-> TRUE, exc |-> exc, msg |-> msg]

Range(s) == {s[i] : i \in 1..Len(s)}

(***************************************************************************)
(* config.py                                                               *)
(***************************************************************************)
\* validate_required_config without GUARDRAILS_ID among the required values
validate_required_config_partial(cfg) ==
    LET required_vars == <<cfg.KNOWLEDGE_BASE_ID, cfg.GATEWAY_MCP_URL>>
        missing_vars == {i \in 1..2 : required_vars[i] = <<>>}
    IN  IF missing_vars # {}
        THEN Raise("ValueError", <<>>)
        ELSE Return(PyNone)

\* Config.validate_required_config: ValueError when a required value is empty
validate_required_config(cfg) ==
    LET required_vars == <<cfg.KNOWLEDGE_BASE_ID, cfg.GATEWAY_MCP_URL, cfg.GUARDRAILS_ID>>
        missing_vars == {i \in 1..3 : required_vars[i] = <<>>}
    IN  IF missing_vars # {}
        THEN Raise("ValueError", <<>>)
        ELSE Return(PyNone)

(***************************************************************************)
(* models/data_models.py                                                   *)
(***************************************************************************)
\* SearchRequest(**payload): search_query is a required str, user_id an
\* optional str defaulting to None, other keys are ignored; a payload that
\* is no mapping cannot be unpacked (TypeError)
SearchRequest(payload) ==
    IF payload.type # "dict"
    THEN Raise("TypeError", <<>>)
    ELSE LET fields == payload.v
             user_id == Get(fields, "user_id", PyNone)
         IN  IF \/ "search_query" \notin DOMAIN fields
                \/ fields["search_query"].type # "str"
                \/ user_id.type \notin {"str", "NoneType"}
             THEN Raise("ValidationError", <<>>)
             ELSE Return([search_query |-> fields["search_query"].v,
                          user_id |-> user_id])

\* SearchResponse(...).model_dump()
SearchResponse(personalised, summary, links) ==
    [personalised |-> personalised, summary |-> summary, links |-> links]

RetrievalResult(summary, citations, confidence_score) ==
    [type |-> "RetrievalResult", summary |-> summary, citations |-> citations,
     confidence_score |-> confidence_score]

PersonalisationResult(content, tool_used, success) ==
    [type |-> "PersonalisationResult", content |-> content, tool_used |-> tool_used,
     success |-> success]

(***************************************************************************)
(* main.py: input validation                                               *)
(***************************************************************************)
MAX_QUERY_LENGTH == 1000

MAX_USER_ID_LENGTH == 255

\* validate_search_query letting one character more through, measured untrimmed
validate_search_query_untrimmed(query) ==
    IF ~Truthy(query) \/ query.type # "str"
    THEN Raise("ValueError", QUERY_NOT_STRING)
    ELSE LET stripped == strip(query.v)
         IN  IF Len(stripped) = 0
             THEN Raise("ValueError", QUERY_EMPTY)
             ELSE IF Len(query.v) > MAX_QUERY_LENGTH + 1
             THEN Raise("ValueError", QUERY_TOO_LONG)
             ELSE Return(SelectSeq(stripped,
                            LAMBDA char : ord(char) >= 32 \/ char \in {"\t", "\n", "\r"}))

\* validate_search_query(query): the sanitised query, or ValueError
validate_search_query(query) ==
    IF ~Truthy(query) \/ query.type # "str"
    THEN Raise("ValueError", QUERY_NOT_STRING)
    ELSE LET stripped == strip(query.v)
         IN  IF Len(stripped) = 0
             THEN Raise("ValueError", QUERY_EMPTY)
             ELSE IF Len(stripped) > MAX_QUERY_LENGTH
             THEN Raise("ValueError", QUERY_TOO_LONG)
             ELSE Return(SelectSeq(stripped,
                            LAMBDA char : ord(char) >= 32 \/ char \in {"\t", "\n", "\r"}))

\* validate_user_id(user_id): the trimmed user id, or ValueError
validate_user_id(user_id) ==
    IF user_id.type # "str"
    THEN Raise("ValueError", USER_ID_NOT_STRING)
    ELSE LET stripped == strip(user_id.v)
         IN  IF Len(stripped) = 0
             THEN Raise("ValueError", USER_ID_EMPTY)
             ELSE IF Len(stripped) > MAX_USER_ID_LENGTH
             THEN Raise("ValueError", USER_ID_TOO_LONG)
             ELSE IF ~ \A i \in 1..Len(stripped) :
                          isalnum(stripped[i]) \/ stripped[i] \in {"-", "_"}
             THEN Raise("ValueError", USER_ID_BAD_CHARS)
             ELSE Return(stripped)

\* _create_error_response(error_message)
_create_error_response(error_message) ==
    [personalised |-> <<>>, summary |-> error_message, links |-> <<>>]

(***************************************************************************)
(* services/knowledge_retrieval.py: processing of the API response.        *)
(* The response and its nested objects are dicts (functions from keys);    *)
(* a reference's "location" and "metadata" are Python values, a metadata   *)
(* dict being the sequence of its (key, value) items in iteration order.   *)
(***************************************************************************)
SENTINEL_RESULT == RetrievalResult(NO_SUMMARY, <<>>, 0)

\* "if uri and uri not in citations: citations.append(uri)"
add_citation(citations, uri) ==
    IF uri # <<>> /\ uri \notin Range(citations)
    THEN Append(citations, uri)
    ELSE citations

\* the if/elif chain over the three location shapes of one reference
add_location(citations, location) ==
    IF "s3Location" \in DOMAIN location
    THEN add_citation(citations, Get(location["s3Location"], "uri", <<>>))
    ELSE IF "webLocation" \in DOMAIN location
    THEN add_citation(citations, Get(location["webLocation"], "url", <<>>))
    ELSE IF "confluenceLocation" \in DOMAIN location
    THEN add_citation(citations, Get(location["confluenceLocation"], "url", <<>>))
    ELSE citations

\* "for key, value in metadata.items()" from item i on
RECURSIVE add_metadata(_, _, _)
add_metadata(citations, items, i) ==
    IF i > Len(items)
    THEN citations
    ELSE LET key == items[i][1]
             value == items[i][2]
             found == /\ lower(key) \in Range(METADATA_URL_KEYS)
                      /\ value.type = "str"
                      /\ startswith(value.v, HTTP) \/ startswith(value.v, HTTPS)
                      /\ value.v \notin Range(citations)
         IN  add_metadata(IF found THEN Append(citations, value.v) ELSE citations,
                          items, i + 1)

\* the body of "for ref in retrieved_refs" for one reference: the extended
\* list, or the TypeError of "'s3Location' in location" on a null location
add_reference(citations, ref) ==
    LET location == Get(ref, "location", PyDict(EmptyDict))
        metadata == Get(ref, "metadata", PyDict(<<>>))
    IN  IF location.type # "dict"
        THEN Raise("TypeError", <<>>)
        ELSE LET located == add_location(citations, location.v)
             IN  IF metadata.type = "dict"
                 THEN Return(add_metadata(located, metadata.v, 1))
                 ELSE Return(located)

\* "for ref in retrieved_refs" from reference j on
RECURSIVE add_references(_, _, _)
add_references(citations, retrieved_refs, j) ==
    IF j > Len(retrieved_refs)
    THEN Return(citations)
    ELSE LET added == add_reference(citations, retrieved_refs[j])
         IN  IF added.raised
             THEN added
             ELSE add_references(added.value, retrieved_refs, j + 1)

\* "for citation in citations_data" from citation i on
RECURSIVE collect_citations(_, _, _)
collect_citations(citations, citations_data, i) ==
    IF i > Len(citations_data)
    THEN Return(citations)
    ELSE LET added == add_references(citations,
                          Get(citations_data[i], "retrievedReferences", <<>>), 1)
         IN  IF added.raised
             THEN added
             ELSE collect_citations(added.value, citations_data, i + 1)

\* "Remove duplicates while preserving order": the seen-set pass from i on
RECURSIVE unique_citations(_, _, _)
unique_citations(unique, citations, i) ==
    IF i > Len(citations)
    THEN unique
    ELSE unique_citations(IF citations[i] \notin Range(unique)
                          THEN Append(unique, citations[i])
                          ELSE unique,
                          citations, i + 1)

\* _extract_citations removing the duplicates through a set, which loses
\* the order (here: gives the reverse order)
_extract_citations_unordered(response) ==
    LET collected == collect_citations(<<>>, Get(response, "citations", <<>>), 1)
        unique == IF collected.raised THEN <<>>
                  ELSE unique_citations(<<>>, collected.value, 1)
    IN  [i \in 1..Len(unique) |-> unique[Len(unique) + 1 - i]]

\* KnowledgeRetrievalService._extract_citations(response)
_extract_citations(response) ==
    LET collected == collect_citations(<<>>, Get(response, "citations", <<>>), 1)
    IN  IF collected.raised
        THEN <<>>
        ELSE unique_citations(<<>>, collected.value, 1)

\* _calculate_confidence_score with the citation bonus given only from the
\* second citation on and taken away again above five
_calculate_confidence_score_dented(text, citations) ==
    IF text = <<>> \/ strip(text) = <<>>
    THEN 0
    ELSE LET text_length == Len(strip(text))
             citation_count == Len(citations)
         IN  3 + (IF text_length > 100 THEN 2 ELSE 0)
               + (IF text_length > 300 THEN 1 ELSE 0)
               + (IF citation_count > 0 THEN 2 ELSE 0)
               + (IF citation_count > 2 THEN 1 ELSE 0)
               - (IF citation_count > 5 THEN 1 ELSE 0)

\* KnowledgeRetrievalService._calculate_confidence_score(text, citations),
\* in tenths: every sum of the increments 0.3, 0.2, 0.1 the code forms
\* rounds to the tenth the integer sum names
_calculate_confidence_score(text, citations) ==
    IF text = <<>> \/ strip(text) = <<>>
    THEN 0
    ELSE LET text_length == Len(strip(text))
             citation_count == Len(citations)
             score == 3 + (IF text_length > 100 THEN 2 ELSE 0)
                        + (IF text_length > 300 THEN 1 ELSE 0)
                        + (IF citation_count > 0 THEN 2 ELSE 0)
                        + (IF citation_count > 2 THEN 1 ELSE 0)
                        + (IF citation_count > 5 THEN 1 ELSE 0)
             lower_bounded == IF score < 0 THEN 0 ELSE score
         IN  IF lower_bounded > 10 THEN 10 ELSE lower_bounded

\* the first index from i on at which phrase matches s ignoring case, 0 if none
next_match(s, phrase, i) ==
    LET matches == {j \in i..(Len(s) - Len(phrase) + 1) :
                        lower(SubSeq(s, j, j + Len(phrase) - 1)) = lower(phrase)}
    IN  IF matches = {} THEN 0 ELSE CHOOSE j \in matches : \A k \in matches : j <= k

\* re.compile(re.escape(phrase), re.IGNORECASE).sub("", s), scanning from i:
\* the non-overlapping matches are removed from left to right
RECURSIVE remove_phrase(_, _, _)
remove_phrase(s, phrase, i) ==
    LET j == next_match(s, phrase, i)
    IN  IF j = 0
        THEN SubSeq(s, i, Len(s))
        ELSE SubSeq(s, i, j - 1) \o remove_phrase(s, phrase, j + Len(phrase))

\* "for phrase in unwanted_phrases" from phrase k on
RECURSIVE remove_phrases(_, _)
remove_phrases(s, k) ==
    IF k > Len(unwanted_phrases)
    THEN s
    ELSE remove_phrases(remove_phrase(s, unwanted_phrases[k], 1), k + 1)

\* the first index from i on that holds whitespace, 0 if none
next_whitespace(s, i) ==
    LET spaces == {j \in i..Len(s) : isspace(s[j])}
    IN  IF spaces = {} THEN 0 ELSE CHOOSE j \in spaces : \A k \in spaces : j <= k

\* re.sub(r'\s+', ' ', s), scanning from i: each run of whitespace becomes
\* one space
RECURSIVE collapse_whitespace(_, _)
collapse_whitespace(s, i) ==
    LET j == next_whitespace(s, i)
    IN  IF j = 0
        THEN SubSeq(s, i, Len(s))
        ELSE SubSeq(s, i, j - 1) \o <<" ">>
                 \o collapse_whitespace(s, lstrip_index(s, Whitespace, j))

\* KnowledgeRetrievalService._clean_summary_text(text)
_clean_summary_text(text) ==
    IF text = <<>>
    THEN <<>>
    ELSE strip_chars(strip(collapse_whitespace(remove_phrases(strip(text), 1), 1)),
                     {".", ",", ";", ":", " "})

\* KnowledgeRetrievalService._process_retrieval_response(response); the
\* AttributeError of None.strip() on a null text is caught like any other
_process_retrieval_response(response) ==
    LET output == Get(response, "output", EmptyDict)
        text == Get(output, "text", PyStr(<<>>))
    IN  IF text.type # "str"
        THEN SENTINEL_RESULT
        ELSE LET generated_text == strip(text.v)
             IN  IF \/ generated_text = <<>>
                    \/ lower(generated_text) \in Range(NO_INFORMATION_PHRASES)
                 THEN SENTINEL_RESULT
                 ELSE LET citations == _extract_citations(response)
                      IN  RetrievalResult(_clean_summary_text(generated_text),
                                          citations,
                                          _calculate_confidence_score(generated_text,
                                                                      citations))

(***************************************************************************)
(* Inputs: the texts the environment supplies                              *)
(***************************************************************************)
\* "Cloud computing offers X."
TEXT_CLOUD ==
    <<"C","l","o","u","d"," ","c","o","m","p","u","t","i","n","g"," ","o","f","f","e","r","s",
      " ","X",".">>

\* "No Information Found"
TEXT_NO_INFO ==
    <<"N","o"," ","I","n","f","o","r","m","a","t","i","o","n"," ","F","o","u","n","d">>

\* "Search results."
TEXT_ONLY_PHRASE ==
    <<"S","e","a","r","c","h"," ","r","e","s","u","l","t","s",".">>

\* "From the Search Results: clouds  scale."
TEXT_WITH_PHRASE ==
    <<"F","r","o","m"," ","t","h","e"," ","S","e","a","r","c","h"," ","R","e","s","u","l","t",
      "s",":"," ","c","l","o","u","d","s"," "," ","s","c","a","l","e",".">>

\* "abc-123_9"
USER_ABC ==
    <<"a","b","c","-","1","2","3","_","9">>

\* "abc@123"
USER_AT ==
    <<"a","b","c","@","1","2","3">>

\* "cloud"
QUERY_CLOUD ==
    <<"c","l","o","u","d">>

\* "Your saved items"
CONTENT ==
    <<"Y","o","u","r"," ","s","a","v","e","d"," ","i","t","e","m","s">>

\* "KB1"
KB_ID ==
    <<"K","B","1">>

\* "https://gw.example/mcp"
GATEWAY_URL ==
    <<"h","t","t","p","s",":","/","/","g","w",".","e","x","a","m","p","l","e","/","m","c","p">>

\* "GR1"
GUARDRAILS ==
    <<"G","R","1">>

\* "ThrottlingException: rate exceeded"
THROTTLED ==
    <<"T","h","r","o","t","t","l","i","n","g","E","x","c","e","p","t","i","o","n",":"," ","r",
      "a","t","e"," ","e","x","c","e","e","d","e","d">>

\* "Read timed out"
TIMED_OUT ==
    <<"R","e","a","d"," ","t","i","m","e","d"," ","o","u","t">>

\* "s3://bucket/a"
URI_A ==
    <<"s","3",":","/","/","b","u","c","k","e","t","/","a">>

\* "https://a.example/doc"
URI_B ==
    <<"h","t","t","p","s",":","/","/","a",".","e","x","a","m","p","l","e","/","d","o","c">>

\* "http://c.example/page"
URI_C ==
    <<"h","t","t","p",":","/","/","c",".","e","x","a","m","p","l","e","/","p","a","g","e">>

\* "ftp://d.example/file"
URI_D ==
    <<"f","t","p",":","/","/","d",".","e","x","a","m","p","l","e","/","f","i","l","e">>

\* "URL"
KEY_URL ==
    <<"U","R","L">>

\* "source"
KEY_SOURCE ==
    <<"s","o","u","r","c","e">>

\* "title"
KEY_TITLE ==
    <<"t","i","t","l","e">>

(***************************************************************************)
(* State                                                                   *)
(***************************************************************************)
VARIABLES
    config,                  \* config.py: the Config values, loaded once per process
    knowledge_service,       \* main.py: the lazily created module-level instances
    personalisation_service,
    mcp_open,                \* the MCP client's session to the gateway is open
    loop,                    \* the request whose coroutine the event loop is running
    pc,                      \* per request: where invoke stands
    payload,                 \* per request: the locals of invoke
    request,
    sanitized_query,
    validated_user_id,
    retrieval_result,
    personalisation_result,
    personalised_content,
    response,                \* what invoke returned
    tools,                   \* per request: the local of get_personalised_content
    calls,                   \* per request: the calls made so far, in order
    unit                     \* a direct call of one function: its arguments and result

vars ==
    <<config, knowledge_service, personalisation_service, mcp_open, loop, pc, payload,
      request, sanitized_query, validated_user_id, retrieval_result,
      personalisation_result, personalised_content, response, tools, calls, unit>>

services == <<knowledge_service, personalisation_service>>

validated == <<request, sanitized_query, validated_user_id>>

personalisation == <<personalisation_result, personalised_content, tools>>

\* the requests in flight
Requests == {"r1"}

FREE == "free"

NoCall == [fn |-> "none"]

\* the most tools the gateway lists
MaxTools == 2

ConfigValues(value) == {<<>>, value}

Configs ==
    [KNOWLEDGE_BASE_ID : ConfigValues(KB_ID),
     GATEWAY_MCP_URL : ConfigValues(GATEWAY_URL),
     GUARDRAILS_ID : ConfigValues(GUARDRAILS)]

QueryTexts ==
    {<<>>, <<" ", "\t">>, QUERY_CLOUD, <<" ">> \o QUERY_CLOUD \o <<"\n">>,
     <<SOH>>, <<"a", SOH, "\t", "b">>,
     Rep("q", MAX_QUERY_LENGTH), Rep("q", MAX_QUERY_LENGTH + 1),
     Rep("q", MAX_QUERY_LENGTH) \o <<" ">>}

UserIdTexts ==
    {<<>>, <<" ">>, USER_ABC, USER_AT, <<" ", "u", "1", " ">>, <<EACUTE>>,
     Rep("u", MAX_USER_ID_LENGTH), Rep("u", MAX_USER_ID_LENGTH + 1)}

QueryValues == {PyStr(q) : q \in QueryTexts} \cup {PyInt(7), PyNone}

UserIdValues == {PyStr(u) : u \in UserIdTexts} \cup {PyInt(7), PyNone}

\* the payloads: a dict with both keys, with search_query only, with
\* user_id only, with an unknown key besides, and a payload that is no dict
Payloads ==
    {PyDict([search_query |-> q, user_id |-> u]) : q \in QueryValues, u \in UserIdValues}
        \cup {PyDict([search_query |-> q]) : q \in QueryValues}
        \cup {PyDict([user_id |-> PyStr(USER_ABC)]),
              PyDict([search_query |-> PyStr(QUERY_CLOUD), page |-> PyInt(7)]),
              PyNone}

\* a reference with a location dict and a metadata dict
Reference(location, metadata) ==
    [location |-> PyDict(location), metadata |-> PyDict(metadata)]

ApiReferenceLists ==
    {<<>>,
     <<Reference([s3Location |-> [uri |-> URI_A]], <<>>),
       Reference([webLocation |-> [url |-> URI_B]], << <<KEY_URL, PyStr(URI_A)>> >>),
       Reference([s3Location |-> [uri |-> URI_A]], << <<KEY_SOURCE, PyStr(URI_C)>> >>)>>}

ApiTexts ==
    {<<>>, TEXT_NO_INFO, TEXT_ONLY_PHRASE, TEXT_CLOUD, TEXT_WITH_PHRASE,
     <<" ">> \o Rep("x", 350)}

\* what the Bedrock RetrieveAndGenerate call returns
ApiResponses ==
    {[output |-> [text |-> PyStr(t)], citations |-> <<[retrievedReferences |-> refs]>>] :
        t \in ApiTexts, refs \in ApiReferenceLists}
        \cup {EmptyDict, [output |-> [text |-> PyNone]]}

\* what the Bedrock RetrieveAndGenerate call raises
ApiErrors == {Raise("ClientError", THROTTLED), Raise("ReadTimeoutError", TIMED_OUT)}

\* what the agent session answers
AgentTexts == {<<>>, <<" ", "\n">>, CONTENT, <<" ">> \o CONTENT \o <<"\n">>}

ToolLists == {[i \in 1..n |-> "tool"] : n \in 0..MaxTools}

(***************************************************************************)
(* main.py: get_knowledge_service, get_personalisation_service             *)
(***************************************************************************)
\* KnowledgeRetrievalService.__init__
KnowledgeRetrievalService(cfg) ==
    [type |-> "KnowledgeRetrievalService", knowledge_base_id |-> cfg.KNOWLEDGE_BASE_ID]

\* PersonalisationService.__init__: no MCP client without a gateway URL
PersonalisationService(cfg) ==
    [type |-> "PersonalisationService", gateway_url |-> cfg.GATEWAY_MCP_URL,
     mcp_client |-> IF cfg.GATEWAY_MCP_URL # <<>> THEN [type |-> "MCPClient"] ELSE PyNone]

get_knowledge_service ==
    IF knowledge_service = PyNone THEN KnowledgeRetrievalService(config)
    ELSE knowledge_service

get_personalisation_service ==
    IF personalisation_service = PyNone THEN PersonalisationService(config)
    ELSE personalisation_service

(***************************************************************************)
(* main.py: invoke.  Every handler yields what invoke does next: return a  *)
(* response (Return) or let the exception leave invoke (Raise).            *)
(***************************************************************************)
\* "except ValueError as config_error" around validate_required_config, inside
\* the outer "except Exception"
on_config_error(err) ==
    IF err.exc = "ValueError"
    THEN Return(_create_error_response(CONFIG_ERROR))
    ELSE Return(_create_error_response(UNEXPECTED_ERROR))

\* on_parse_error without the "except Exception as parse_error" clause
on_parse_error_uncaught(err) ==
    IF err.exc = "ValidationError"
    THEN Return(_create_error_response(FORMAT_ERROR))
    ELSE err

\* "except ValidationError" and "except Exception as parse_error" around
\* SearchRequest(**payload)
on_parse_error(err) ==
    IF err.exc = "ValidationError"
    THEN Return(_create_error_response(FORMAT_ERROR))
    ELSE Return(_create_error_response(PARSE_ERROR))

\* on_validation_error answering with the text of the exception alone
on_validation_error_bare(err) ==
    IF err.exc = "ValueError"
    THEN Return(_create_error_response(err.msg))
    ELSE Return(_create_error_response(UNEXPECTED_ERROR))

\* "except ValueError as validation_error" around the two validators, inside
\* the outer "except Exception"
on_validation_error(err) ==
    IF err.exc = "ValueError"
    THEN Return(_create_error_response(INVALID_INPUT \o err.msg))
    ELSE Return(_create_error_response(UNEXPECTED_ERROR))

\* the outer "except Exception as e"
on_unexpected_error(err) == Return(_create_error_response(UNEXPECTED_ERROR))

\* assemble testing only that there is a retrieval result
assemble_unchecked_summary(result, content) ==
    IF result # PyNone
    THEN SearchResponse(content, result.summary, result.citations)
    ELSE SearchResponse(content, NO_SUMMARY, <<>>)

\* the "Assemble response" block: summary and links from the retrieval
\* result when there is one with a non-empty summary
assemble(result, content) ==
    IF result # PyNone /\ result.summary # <<>>
    THEN SearchResponse(content, result.summary, result.citations)
    ELSE SearchResponse(content, NO_SUMMARY, <<>>)

\* "if personalisation_result.success and personalisation_result.content"
select_personalised(result) ==
    IF result.success /\ result.content # <<>> THEN result.content ELSE <<>>

Set(var, r, value) == [var EXCEPT ![r] = value]

Called(r, name) == calls' = Set(calls, r, Append(calls[r], name))

\* invoke ends: it returns the response of the outcome, or raises
Finish(r, outcome, state) ==
    /\ pc' = Set(pc, r, IF outcome.raised THEN "Raised" ELSE state)
    /\ response' = Set(response, r, IF outcome.raised THEN PyNone ELSE outcome.value)
    /\ loop' = FREE

PipelineInit ==
    /\ config \in Configs
    /\ knowledge_service = PyNone
    /\ personalisation_service = PyNone
    /\ mcp_open = FALSE
    /\ loop = FREE
    /\ pc = [r \in Requests |-> "idle"]
    /\ payload = [r \in Requests |-> PyNone]
    /\ request = [r \in Requests |-> PyNone]
    /\ sanitized_query = [r \in Requests |-> PyNone]
    /\ validated_user_id = [r \in Requests |-> PyNone]
    /\ retrieval_result = [r \in Requests |-> PyNone]
    /\ personalisation_result = [r \in Requests |-> PyNone]
    /\ personalised_content = [r \in Requests |-> <<>>]
    /\ response = [r \in Requests |-> PyNone]
    /\ tools = [r \in Requests |-> <<>>]
    /\ calls = [r \in Requests |-> <<>>]

Init == PipelineInit /\ unit = NoCall

\* the caller sends a request while no other is in flight; invoke starts with
\* fresh locals
Receive(r, p) ==
    /\ \A q \in Requests : pc[q] = "idle"
    /\ loop = FREE
    /\ loop' = r
    /\ pc' = Set(pc, r, "check_config")
    /\ payload' = Set(payload, r, p)
    /\ UNCHANGED <<config, services, mcp_open, validated, retrieval_result,
                   personalisation, response, calls, unit>>

\* config.validate_required_config()
CheckConfig(r) ==
    /\ pc[r] = "check_config"
    /\ loop = r
    /\ LET checked == validate_required_config(config)
       IN  IF checked.raised
           THEN Finish(r, on_config_error(checked), "ErrorReturned")
           ELSE /\ pc' = Set(pc, r, "parse")
                /\ UNCHANGED <<response, loop>>
    /\ UNCHANGED <<config, services, mcp_open, payload, validated, retrieval_result,
                   personalisation, calls, unit>>

\* request = SearchRequest(**payload)
ParsePayload(r) ==
    /\ pc[r] = "parse"
    /\ loop = r
    /\ LET parsed == SearchRequest(payload[r])
       IN  IF parsed.raised
           THEN /\ Finish(r, on_parse_error(parsed), "ErrorReturned")
                /\ UNCHANGED request
           ELSE /\ pc' = Set(pc, r, "validate")
                /\ request' = Set(request, r, parsed.value)
                /\ UNCHANGED <<response, loop>>
    /\ UNCHANGED <<config, services, mcp_open, payload, sanitized_query,
                   validated_user_id, retrieval_result, personalisation, calls, unit>>

\* validate_search_query, then validate_user_id "if request.user_id"
ValidateInput(r) ==
    /\ pc[r] = "validate"
    /\ loop = r
    /\ LET query == validate_search_query(PyStr(request[r].search_query))
           authenticated == Truthy(request[r].user_id)
           user_id == IF authenticated
                      THEN validate_user_id(request[r].user_id)
                      ELSE Return(<<>>)
       IN  IF query.raised
           THEN /\ Finish(r, on_validation_error(query), "ErrorReturned")
                /\ UNCHANGED <<sanitized_query, validated_user_id>>
           ELSE IF user_id.raised
           THEN /\ Finish(r, on_validation_error(user_id), "ErrorReturned")
                /\ sanitized_query' = Set(sanitized_query, r, PyStr(query.value))
                /\ UNCHANGED validated_user_id
           ELSE /\ pc' = Set(pc, r, "init_services")
                /\ sanitized_query' = Set(sanitized_query, r, PyStr(query.value))
                /\ validated_user_id' =
                       Set(validated_user_id, r,
                           IF authenticated THEN PyStr(user_id.value) ELSE PyNone)
                /\ UNCHANGED <<response, loop>>
    /\ UNCHANGED <<config, services, mcp_open, payload, request, retrieval_result,
                   personalisation, calls, unit>>

\* InitServices going on to personalisation without the retrieval
InitServices_unretrieved(r) ==
    /\ pc[r] = "init_services"
    /\ loop = r
    /\ knowledge_service' = get_knowledge_service
    /\ personalisation_service' = get_personalisation_service
    /\ pc' = Set(pc, r, "personalise")
    /\ UNCHANGED <<config, mcp_open, loop, payload, validated, retrieval_result,
                   personalisation, response, calls, unit>>

\* get_knowledge_service() and get_personalisation_service(): the instances
\* are created on first use
InitServices(r) ==
    /\ pc[r] = "init_services"
    /\ loop = r
    /\ knowledge_service' = get_knowledge_service
    /\ personalisation_service' = get_personalisation_service
    /\ pc' = Set(pc, r, "retrieve")
    /\ UNCHANGED <<config, mcp_open, loop, payload, validated, retrieval_result,
                   personalisation, response, calls, unit>>

\* KnowledgeRetrievalService() raises while the instance is created (the
\* boto3 client cannot be built): the outer handler answers
InitServicesFails(r) ==
    /\ pc[r] = "init_services"
    /\ loop = r
    /\ knowledge_service = PyNone
    /\ Finish(r, on_unexpected_error(Raise("Exception", <<>>)), "ErrorReturned")
    /\ UNCHANGED <<config, services, mcp_open, payload, validated, retrieval_result,
                   personalisation, calls, unit>>

\* await knowledge_svc.retrieve_and_generate(sanitized_query) up to the API
\* call: a blank query gets the sentinel at once, any other query is
\* sent to the API in the executor and the coroutine is suspended
RetrieveAndGenerate(r) ==
    /\ pc[r] = "retrieve"
    /\ loop = r
    /\ IF strip(sanitized_query[r].v) = <<>>
       THEN /\ retrieval_result' = Set(retrieval_result, r, SENTINEL_RESULT)
            /\ pc' = Set(pc, r, "personalise")
            /\ Called(r, "retrieve_and_generate")
            /\ UNCHANGED loop
       ELSE /\ pc' = Set(pc, r, "api_wait")
            /\ loop' = FREE
            /\ calls' = Set(calls, r, calls[r] \o <<"retrieve_and_generate", "api">>)
            /\ UNCHANGED retrieval_result
    /\ UNCHANGED <<config, services, mcp_open, payload, validated, personalisation,
                   response, unit>>

\* on_api_error putting the error text into the result
on_api_error_leaking(err) == RetrievalResult(err.msg, <<>>, 0)

\* "except ClientError" and "except Exception" of retrieve_and_generate: the
\* error is logged and the sentinel returned
on_api_error(err) == SENTINEL_RESULT

\* the API call returned: _process_retrieval_response
ApiReturns(r, api_response) ==
    /\ pc[r] = "api_wait"
    /\ loop = FREE
    /\ loop' = r
    /\ retrieval_result' = Set(retrieval_result, r, _process_retrieval_response(api_response))
    /\ pc' = Set(pc, r, "personalise")
    /\ UNCHANGED <<config, services, mcp_open, payload, validated, personalisation,
                   response, calls, unit>>

\* the API call raised
ApiRaises(r, err) ==
    /\ pc[r] = "api_wait"
    /\ loop = FREE
    /\ loop' = r
    /\ retrieval_result' = Set(retrieval_result, r, on_api_error(err))
    /\ pc' = Set(pc, r, "personalise")
    /\ Called(r, "api_error")
    /\ UNCHANGED <<config, services, mcp_open, payload, validated, personalisation,
                   response, unit>>

\* the awaited retrieve_and_generate itself raised to invoke (an instance
\* put in place of the service): "except Exception as kb_error"
KnowledgeQueryFails(r) ==
    /\ pc[r] = "retrieve"
    /\ loop = r
    /\ retrieval_result' = Set(retrieval_result, r, PyNone)
    /\ pc' = Set(pc, r, "personalise")
    /\ calls' = Set(calls, r, calls[r] \o <<"retrieve_and_generate", "kb_error">>)
    /\ UNCHANGED <<config, services, mcp_open, loop, payload, validated, personalisation,
                   response, unit>>

\* Personalise without the "if validated_user_id" test
Personalise_unconditional(r) ==
    /\ pc[r] = "personalise"
    /\ loop = r
    /\ personalised_content' = Set(personalised_content, r, <<>>)
    /\ pc' = Set(pc, r, "guards")
    /\ Called(r, "get_personalised_content")
    /\ UNCHANGED <<config, services, mcp_open, loop, payload, validated, retrieval_result,
                   personalisation_result, tools, response, unit>>

\* personalised_content = ""; "if validated_user_id": call the resolver
Personalise(r) ==
    /\ pc[r] = "personalise"
    /\ loop = r
    /\ personalised_content' = Set(personalised_content, r, <<>>)
    /\ IF Truthy(validated_user_id[r])
       THEN /\ pc' = Set(pc, r, "guards")
            /\ Called(r, "get_personalised_content")
       ELSE /\ pc' = Set(pc, r, "assemble")
            /\ UNCHANGED calls
    /\ UNCHANGED <<config, services, mcp_open, loop, payload, validated, retrieval_result,
                   personalisation_result, tools, response, unit>>

\* PersonalisationFails without the inner try: the outer handler answers
PersonalisationFails_fatal(r) ==
    /\ pc[r] = "personalise"
    /\ loop = r
    /\ Truthy(validated_user_id[r])
    /\ Finish(r, on_unexpected_error(Raise("Exception", <<>>)), "ErrorReturned")
    /\ calls' = Set(calls, r, calls[r] \o <<"get_personalised_content", "personalisation_error">>)
    /\ UNCHANGED <<config, services, mcp_open, payload, validated, retrieval_result,
                   personalisation, unit>>

\* the awaited get_personalised_content itself raised to invoke:
\* "except Exception as personalisation_error"
PersonalisationFails(r) ==
    /\ pc[r] = "personalise"
    /\ loop = r
    /\ Truthy(validated_user_id[r])
    /\ personalised_content' = Set(personalised_content, r, <<>>)
    /\ pc' = Set(pc, r, "assemble")
    /\ calls' = Set(calls, r, calls[r] \o <<"get_personalised_content", "personalisation_error">>)
    /\ UNCHANGED <<config, services, mcp_open, loop, payload, validated, retrieval_result,
                   personalisation_result, tools, response, unit>>

(***************************************************************************)
(* services/personalisation.py: get_personalised_content                   *)
(***************************************************************************)
UNSUCCESSFUL == PersonalisationResult(<<>>, <<>>, FALSE)

\* the three early returns: blank user id, blank topic, no MCP client
disabled(service, user_id, search_topic) ==
    \/ user_id = <<>> \/ strip(user_id) = <<>>
    \/ search_topic = <<>> \/ strip(search_topic) = <<>>
    \/ service.mcp_client = PyNone

\* "if response and response.strip()" on the agent's answer
agent_result(agent_response) ==
    IF agent_response # <<>> /\ strip(agent_response) # <<>>
    THEN PersonalisationResult(strip(agent_response), AGENT_TOOL, TRUE)
    ELSE PersonalisationResult(<<>>, AGENT_TOOL, FALSE)

\* get_personalised_content returns result to invoke
Resolved(r, result) ==
    /\ personalisation_result' = Set(personalisation_result, r, result)
    /\ pc' = Set(pc, r, "personalised")

\* the guards before the try block
Guards(r) ==
    /\ pc[r] = "guards"
    /\ loop = r
    /\ IF disabled(personalisation_service, validated_user_id[r].v, sanitized_query[r].v)
       THEN Resolved(r, UNSUCCESSFUL)
       ELSE /\ pc' = Set(pc, r, "connect")
            /\ UNCHANGED personalisation_result
    /\ UNCHANGED <<config, services, mcp_open, loop, payload, validated, retrieval_result,
                   personalised_content, tools, response, calls, unit>>

\* "with self.mcp_client:" is entered and the session is open
Connect(r) ==
    /\ pc[r] = "connect"
    /\ loop = r
    /\ mcp_open' = TRUE
    /\ pc' = Set(pc, r, "list_tools")
    /\ Called(r, "connect")
    /\ UNCHANGED <<config, services, loop, payload, validated, retrieval_result,
                   personalisation, response, unit>>

\* entering the MCP client raises: no session is open, "except Exception"
ConnectFails(r) ==
    /\ pc[r] = "connect"
    /\ loop = r
    /\ Resolved(r, UNSUCCESSFUL)
    /\ Called(r, "connect_error")
    /\ UNCHANGED <<config, services, mcp_open, loop, payload, validated, retrieval_result,
                   personalised_content, tools, response, unit>>

\* ListTools without the "if not tools" return
ListTools_unchecked(r, listed) ==
    /\ pc[r] = "list_tools"
    /\ loop = r
    /\ tools' = Set(tools, r, listed)
    /\ Called(r, "list_tools")
    /\ pc' = Set(pc, r, "agent")
    /\ UNCHANGED <<config, services, mcp_open, loop, payload, validated, retrieval_result,
                   personalisation_result, personalised_content, response, unit>>

\* tools = self.mcp_client.list_tools_sync(); "if not tools" returns from
\* inside the with block, which closes the session
ListTools(r, listed) ==
    /\ pc[r] = "list_tools"
    /\ loop = r
    /\ tools' = Set(tools, r, listed)
    /\ Called(r, "list_tools")
    /\ IF listed = <<>>
       THEN /\ Resolved(r, UNSUCCESSFUL)
            /\ mcp_open' = FALSE
       ELSE /\ pc' = Set(pc, r, "agent")
            /\ UNCHANGED <<personalisation_result, mcp_open>>
    /\ UNCHANGED <<config, services, loop, payload, validated, retrieval_result,
                   personalised_content, response, unit>>

\* list_tools_sync raises: the with block closes the session, "except Exception"
ListToolsFails(r) ==
    /\ pc[r] = "list_tools"
    /\ loop = r
    /\ Resolved(r, UNSUCCESSFUL)
    /\ mcp_open' = FALSE
    /\ Called(r, "list_tools_error")
    /\ UNCHANGED <<config, services, loop, payload, validated, retrieval_result,
                   personalised_content, tools, response, unit>>

\* the Agent is created with the tools and called; it answers with a text
RunAgent(r, agent_response) ==
    /\ pc[r] = "agent"
    /\ loop = r
    /\ Resolved(r, agent_result(agent_response))
    /\ mcp_open' = FALSE
    /\ Called(r, "agent")
    /\ UNCHANGED <<config, services, loop, payload, validated, retrieval_result,
                   personalised_content, tools, response, unit>>

\* RunAgentFails leaving the session open
RunAgentFails_leaking(r) ==
    /\ pc[r] = "agent"
    /\ loop = r
    /\ Resolved(r, UNSUCCESSFUL)
    /\ calls' = Set(calls, r, calls[r] \o <<"agent", "agent_error">>)
    /\ UNCHANGED <<config, services, mcp_open, loop, payload, validated, retrieval_result,
                   personalised_content, tools, response, unit>>

\* the Agent is created and raises: the with block closes the session
RunAgentFails(r) ==
    /\ pc[r] = "agent"
    /\ loop = r
    /\ Resolved(r, UNSUCCESSFUL)
    /\ mcp_open' = FALSE
    /\ calls' = Set(calls, r, calls[r] \o <<"agent", "agent_error">>)
    /\ UNCHANGED <<config, services, loop, payload, validated, retrieval_result,
                   personalised_content, tools, response, unit>>

(***************************************************************************)
(* main.py: invoke, after the resolver                                     *)
(***************************************************************************)
\* the resolver's result is read
Personalised(r) ==
    /\ pc[r] = "personalised"
    /\ loop = r
    /\ personalised_content' =
           Set(personalised_content, r, select_personalised(personalisation_result[r]))
    /\ pc' = Set(pc, r, "assemble")
    /\ UNCHANGED <<config, services, mcp_open, loop, payload, validated, retrieval_result,
                   personalisation_result, tools, response, calls, unit>>

\* the response is assembled and returned
Assemble(r) ==
    /\ pc[r] = "assemble"
    /\ loop = r
    /\ Finish(r, Return(assemble(retrieval_result[r], personalised_content[r])), "Returned")
    /\ UNCHANGED <<config, services, mcp_open, payload, validated, retrieval_result,
                   personalisation, calls, unit>>

Terminal == {"Returned", "ErrorReturned", "Raised"}

\* the caller has the response (or the exception); the locals of this
\* invocation are gone
Deliver(r) ==
    /\ pc[r] \in Terminal
    /\ pc' = Set(pc, r, "idle")
    /\ payload' = Set(payload, r, PyNone)
    /\ request' = Set(request, r, PyNone)
    /\ sanitized_query' = Set(sanitized_query, r, PyNone)
    /\ validated_user_id' = Set(validated_user_id, r, PyNone)
    /\ retrieval_result' = Set(retrieval_result, r, PyNone)
    /\ personalisation_result' = Set(personalisation_result, r, PyNone)
    /\ personalised_content' = Set(personalised_content, r, <<>>)
    /\ response' = Set(response, r, PyNone)
    /\ tools' = Set(tools, r, <<>>)
    /\ calls' = Set(calls, r, <<>>)
    /\ UNCHANGED <<config, services, mcp_open, loop, unit>>

Next ==
    \E r \in Requests :
        \/ \E p \in Payloads : Receive(r, p)
        \/ CheckConfig(r)
        \/ ParsePayload(r)
        \/ ValidateInput(r)
        \/ InitServices(r)
        \/ InitServicesFails(r)
        \/ RetrieveAndGenerate(r)
        \/ \E api_response \in ApiResponses : ApiReturns(r, api_response)
        \/ \E err \in ApiErrors : ApiRaises(r, err)
        \/ KnowledgeQueryFails(r)
        \/ Personalise(r)
        \/ PersonalisationFails(r)
        \/ Guards(r)
        \/ Connect(r)
        \/ ConnectFails(r)
        \/ \E listed \in ToolLists : ListTools(r, listed)
        \/ ListToolsFails(r)
        \/ \E agent_response \in AgentTexts : RunAgent(r, agent_response)
        \/ RunAgentFails(r)
        \/ Personalised(r)
        \/ Assemble(r)
        \/ Deliver(r)

Spec == Init /\ [][Next]_vars

\* the steps of a request that the event loop takes by itself; the answers
\* of the retrieval API, of the gateway and of the agent are not among them
Internal(r) ==
    \/ CheckConfig(r)
    \/ ParsePayload(r)
    \/ ValidateInput(r)
    \/ InitServices(r)
    \/ RetrieveAndGenerate(r)
    \/ Personalise(r)
    \/ Guards(r)
    \/ Personalised(r)
    \/ Assemble(r)

\* the event loop keeps running a coroutine that can run; an external
\* service answers or fails when it does, if ever
SpecFair == Init /\ [][Next]_vars /\ \A r \in Requests : WF_vars(Internal(r))

(***************************************************************************)
(* Several requests in flight on the one event loop.  A request that has   *)
(* arrived is a task ready to run; it starts when the loop is free, runs   *)
(* until its coroutine is suspended or ends, and only then does the loop   *)
(* take another task.                                                      *)
(***************************************************************************)
\* the requests in flight together
InFlight == {"r1", "r2"}

ConcurrentPayloads ==
    {PyDict([search_query |-> PyStr(QUERY_CLOUD)]),
     PyDict([search_query |-> PyStr(QUERY_CLOUD), user_id |-> PyStr(USER_ABC)])}

InitConcurrent ==
    /\ config = [KNOWLEDGE_BASE_ID |-> KB_ID, GATEWAY_MCP_URL |-> GATEWAY_URL,
                 GUARDRAILS_ID |-> GUARDRAILS]
    /\ knowledge_service = PyNone
    /\ personalisation_service = PyNone
    /\ mcp_open = FALSE
    /\ loop = FREE
    /\ pc = [r \in InFlight |-> "idle"]
    /\ payload = [r \in InFlight |-> PyNone]
    /\ request = [r \in InFlight |-> PyNone]
    /\ sanitized_query = [r \in InFlight |-> PyNone]
    /\ validated_user_id = [r \in InFlight |-> PyNone]
    /\ retrieval_result = [r \in InFlight |-> PyNone]
    /\ personalisation_result = [r \in InFlight |-> PyNone]
    /\ personalised_content = [r \in InFlight |-> <<>>]
    /\ response = [r \in InFlight |-> PyNone]
    /\ tools = [r \in InFlight |-> <<>>]
    /\ calls = [r \in InFlight |-> <<>>]
    /\ unit = NoCall

\* a request arrives, whatever the loop is doing: its task is ready to run
Arrive(r, p) ==
    /\ pc[r] = "idle"
    /\ pc' = Set(pc, r, "ready")
    /\ payload' = Set(payload, r, p)
    /\ UNCHANGED <<config, services, mcp_open, loop, validated, retrieval_result,
                   personalisation, response, calls, unit>>

\* the loop is free and runs the ready task: invoke starts
Start(r) ==
    /\ pc[r] = "ready"
    /\ loop = FREE
    /\ loop' = r
    /\ pc' = Set(pc, r, "check_config")
    /\ UNCHANGED <<config, services, mcp_open, payload, validated, retrieval_result,
                   personalisation, response, calls, unit>>

NextConcurrent ==
    \E r \in InFlight :
        \/ \E p \in ConcurrentPayloads : Arrive(r, p)
        \/ Start(r)
        \/ CheckConfig(r)
        \/ ParsePayload(r)
        \/ ValidateInput(r)
        \/ InitServices(r)
        \/ InitServicesFails(r)
        \/ RetrieveAndGenerate(r)
        \/ \E api_response \in ApiResponses : ApiReturns(r, api_response)
        \/ \E err \in ApiErrors : ApiRaises(r, err)
        \/ KnowledgeQueryFails(r)
        \/ Personalise(r)
        \/ PersonalisationFails(r)
        \/ Guards(r)
        \/ Connect(r)
        \/ ConnectFails(r)
        \/ \E listed \in ToolLists : ListTools(r, listed)
        \/ ListToolsFails(r)
        \/ \E agent_response \in AgentTexts : RunAgent(r, agent_response)
        \/ RunAgentFails(r)
        \/ Personalised(r)
        \/ Assemble(r)
        \/ Deliver(r)

SpecConcurrent == InitConcurrent /\ [][NextConcurrent]_vars

(***************************************************************************)
(* Direct calls of single functions: the arguments are drawn in the        *)
(* initial state, the call puts the result beside them.  The pipeline      *)
(* stands idle meanwhile.                                                  *)
(***************************************************************************)
pipeline ==
    <<config, knowledge_service, personalisation_service, mcp_open, loop, pc, payload,
      request, sanitized_query, validated_user_id, retrieval_result,
      personalisation_result, personalised_content, response, tools, calls>>

FullConfig ==
    [KNOWLEDGE_BASE_ID |-> KB_ID, GATEWAY_MCP_URL |-> GATEWAY_URL,
     GUARDRAILS_ID |-> GUARDRAILS]

PipelineIdle == PipelineInit /\ config = FullConfig

Call(fn, args) == [fn |-> fn, args |-> args, done |-> FALSE, result |-> PyNone]

Pending(fn) == unit.fn = fn /\ ~unit.done

Done(fn) == unit.fn = fn /\ unit.done

Pads == {<<>>, <<" ">>, <<"\t", "\n">>}

UserIdBodies ==
    {<<>>, <<"a">>, <<"Z", "9">>, <<"-">>, <<"_">>, USER_ABC, USER_AT, <<"a", " ", "b">>,
     <<"a", ".", "b">>, <<"a", SOH>>, <<EACUTE>>, <<"u", EACUTE, "1">>,
     Rep("u", MAX_USER_ID_LENGTH), Rep("u", MAX_USER_ID_LENGTH + 1),
     Rep("u", MAX_USER_ID_LENGTH - 1) \o <<"@">>}

UnitUserIds == {left \o body \o right : left \in Pads, body \in UserIdBodies, right \in Pads}

InitUserId ==
    /\ PipelineIdle
    /\ unit \in {Call("validate_user_id", PyStr(u)) : u \in UnitUserIds}

CallValidateUserId ==
    /\ Pending("validate_user_id")
    /\ unit' = [unit EXCEPT !.done = TRUE, !.result = validate_user_id(unit.args)]
    /\ UNCHANGED pipeline

NextUserId == CallValidateUserId

SpecUserId == InitUserId /\ [][NextUserId]_vars

\* the texts and citation lists the assembler and the scorer are called with
Summaries == {<<>>, <<" ">>, TEXT_CLOUD, NO_SUMMARY, QUERY_CLOUD}

CitationLists == {<<>>, <<URI_B>>, <<URI_A, URI_B>>, <<URI_C, URI_A, URI_B>>}

RetrievalResults ==
    {RetrievalResult(summary, citations, confidence_score) :
        summary \in Summaries, citations \in CitationLists, confidence_score \in {0, 5, 10}}

InitAssemble ==
    /\ PipelineIdle
    /\ unit \in {Call("assemble", [retrieval_result |-> result, personalised_content |-> content]) :
                    result \in RetrievalResults \cup {PyNone}, content \in {<<>>, CONTENT}}

CallAssemble ==
    /\ Pending("assemble")
    /\ unit' = [unit EXCEPT !.done = TRUE,
                            !.result = assemble(unit.args.retrieval_result,
                                                unit.args.personalised_content)]
    /\ UNCHANGED pipeline

NextAssemble == CallAssemble

SpecAssemble == InitAssemble /\ [][NextAssemble]_vars

\* the most references in the response of a direct _extract_citations call
MaxReferences == 3

\* the shapes of a reference: each of the three locations, a location with
\* metadata that repeats and adds URIs, metadata whose keys or values do not
\* count, an s3Location without uri beside a webLocation, a null location, a
\* null metadata, metadata alone
ReferenceShapes ==
    {Reference([s3Location |-> [uri |-> URI_A]], <<>>),
     Reference([webLocation |-> [url |-> URI_B]], <<>>),
     Reference([confluenceLocation |-> [url |-> URI_C]], <<>>),
     Reference([s3Location |-> [uri |-> URI_A]],
               << <<KEY_URL, PyStr(URI_B)>>, <<KEY_SOURCE, PyStr(URI_C)>> >>),
     Reference([webLocation |-> [url |-> URI_D]],
               << <<KEY_URL, PyStr(URI_D)>>, <<KEY_SOURCE, PyInt(7)>>,
                  <<KEY_TITLE, PyStr(URI_C)>> >>),
     Reference([s3Location |-> EmptyDict, webLocation |-> [url |-> URI_B]], <<>>),
     [location |-> PyNone, metadata |-> PyDict(<<>>)],
     [metadata |-> PyNone],
     [metadata |-> PyDict(<< <<KEY_SOURCE, PyStr(URI_C)>>, <<KEY_URL, PyStr(URI_C)>> >>)]}

ReferenceLists == UNION {[1..n -> ReferenceShapes] : n \in 0..MaxReferences}

\* the response whose first citation holds the first k references and whose
\* second citation holds the others
CitationResponse(refs, k) ==
    [citations |-> <<[retrievedReferences |-> SubSeq(refs, 1, k)],
                     [retrievedReferences |-> SubSeq(refs, k + 1, Len(refs))]>>]

CitationResponses ==
    {CitationResponse(refs, 0) : refs \in ReferenceLists}
        \cup {CitationResponse(refs, 1) : refs \in ReferenceLists \ {<<>>}}

InitCitations ==
    /\ PipelineIdle
    /\ unit \in {Call("_extract_citations", api_response) :
                    api_response \in CitationResponses}

CallExtractCitations ==
    /\ Pending("_extract_citations")
    /\ unit' = [unit EXCEPT !.done = TRUE, !.result = _extract_citations(unit.args)]
    /\ UNCHANGED pipeline

NextCitations == CallExtractCitations

SpecCitations == InitCitations /\ [][NextCitations]_vars

\* the most citations in a direct _calculate_confidence_score call
MaxCitations == 7

\* the text lengths around the thresholds of the score
TextLengths == {0, 1, 50, 100, 101, 200, 300, 301, 350}

Cited(n) == [i \in 1..n |-> URI_A \o <<chr(48 + i)>>]

Score(text, citations) ==
    [unit EXCEPT !.done = TRUE,
                 !.args = [text |-> text, citations |-> citations],
                 !.result = _calculate_confidence_score(text, citations)]

\* the scorer is called with a text as _process_retrieval_response passes
\* it, without surrounding whitespace
InitConfidence ==
    /\ PipelineIdle
    /\ unit \in {Call("_calculate_confidence_score",
                      [text |-> Rep("x", n), citations |-> Cited(k)]) :
                    n \in TextLengths, k \in 0..MaxCitations}

CallConfidence ==
    /\ Pending("_calculate_confidence_score")
    /\ unit' = Score(unit.args.text, unit.args.citations)
    /\ UNCHANGED pipeline

\* the scorer is called again with a longer text
CallConfidenceLonger(n) ==
    /\ Done("_calculate_confidence_score")
    /\ n > Len(unit.args.text)
    /\ unit' = Score(Rep("x", n), unit.args.citations)
    /\ UNCHANGED pipeline

\* the scorer is called again with one more citation
CallConfidenceMoreCited ==
    /\ Done("_calculate_confidence_score")
    /\ Len(unit.args.citations) < MaxCitations
    /\ unit' = Score(unit.args.text, Cited(Len(unit.args.citations) + 1))
    /\ UNCHANGED pipeline

NextConfidence ==
    \/ CallConfidence
    \/ \E n \in TextLengths : CallConfidenceLonger(n)
    \/ CallConfidenceMoreCited

SpecConfidence == InitConfidence /\ [][NextConfidence]_vars

(***************************************************************************)
(* Properties                                                              *)
(***************************************************************************)
Texts == Seq(DOMAIN CodePoint)

\* exactly the three fields, two strings and a sequence of strings
WellFormed(resp) ==
    /\ DOMAIN resp = {"personalised", "summary", "links"}
    /\ resp.personalised \in Texts
    /\ resp.summary \in Texts
    /\ resp.links \in Seq(Texts)

Answered(r) == pc[r] \in {"Returned", "ErrorReturned"}

Made(r, name) == name \in Range(calls[r])

\* C1: invoke never raises, and whatever the payload, the configuration, the
\* retriever and the resolver do, what it returns has exactly the fields
\* personalised (string), summary (string) and links (sequence of strings).
C1_InvokeAlwaysAnswers ==
    \A r \in Requests :
        /\ pc[r] # "Raised"
        /\ Answered(r) => WellFormed(response[r])

\* C1 happens: the retriever and the resolver both raised and invoke answered
C1_Witness ==
    \E r \in Requests :
        /\ pc[r] = "Returned"
        /\ Made(r, "kb_error")
        /\ Made(r, "personalisation_error")
        /\ WellFormed(response[r])

RawErrors == {err.msg : err \in ApiErrors}

RetrievalRaised(r) == Made(r, "api_error") \/ Made(r, "kb_error")

\* C2: when the knowledge retrieval call raised, invoke returns the normal
\* three-field response with the sentinel summary and no links, and no field
\* holds the text of the error.
C2_RetrievalErrorGivesSentinel ==
    \A r \in Requests :
        (pc[r] \in Terminal /\ RetrievalRaised(r)) =>
            /\ pc[r] = "Returned"
            /\ WellFormed(response[r])
            /\ response[r].summary = NO_SUMMARY
            /\ response[r].links = <<>>
            /\ response[r].personalised \notin RawErrors

\* C2 happens: the API call raised and invoke returned
C2_Witness ==
    \E r \in Requests : pc[r] = "Returned" /\ Made(r, "api_error")

\* the payload is a dict without user_id, or with a null user_id
NoUserId(p) ==
    /\ p.type = "dict"
    /\ "user_id" \in DOMAIN p.v => p.v["user_id"] = PyNone

\* C3: a request that carries no user_id never invokes
\* get_personalised_content, and its response has personalised = "".
C3_AnonymousNeverPersonalised ==
    \A r \in Requests :
        NoUserId(payload[r]) =>
            /\ ~Made(r, "get_personalised_content")
            /\ Answered(r) => response[r].personalised = <<>>

\* C3 happens: a well-formed request without user_id went through retrieval
\* and was answered
C3_Witness ==
    \E r \in Requests :
        /\ NoUserId(payload[r])
        /\ pc[r] = "Returned"
        /\ Made(r, "api")
        /\ response[r].summary # NO_SUMMARY

\* the payload parses as a request and the configuration is complete, so
\* that validation runs
Validates(r) ==
    /\ config = FullConfig
    /\ payload[r] # PyNone
    /\ ~SearchRequest(payload[r]).raised

TOO_LONG_RESPONSE == _create_error_response(INVALID_INPUT \o QUERY_TOO_LONG)

NoTools(r) == Made(r, "list_tools") /\ tools[r] = <<>>

\* C8: when tool discovery returns zero tools, no agent session is created
\* or run during the request, and the request is answered with
\* personalised = "".
C8_NoToolsNoSession ==
    \A r \in Requests :
        NoTools(r) =>
            /\ ~Made(r, "agent")
            /\ pc[r] \in Terminal =>
                   pc[r] = "Returned" /\ response[r].personalised = <<>>

\* C8 happens: a request with a valid user_id found no tools and was answered
C8_Witness ==
    \E r \in Requests :
        /\ NoTools(r)
        /\ validated_user_id[r] = PyStr(USER_ABC)
        /\ pc[r] = "Returned"

\* the summary and links a retrieval outcome gives, whoever asks
KnowledgePart(result) ==
    IF result # PyNone /\ result.summary # <<>>
    THEN <<result.summary, result.citations>>
    ELSE <<NO_SUMMARY, <<>>>>

\* the personalised text a resolver outcome gives: its content when it
\* returned success with non-empty content, else nothing
PersonalisedPart(result) ==
    IF result # PyNone /\ result.success /\ result.content # <<>>
    THEN result.content
    ELSE <<>>

\* C10: once the resolver has been invoked, whatever it does, the request
\* ends with a normal response; the summary and links of every normal
\* response are those of its retrieval outcome alone, the same with and
\* without a user_id; and personalised is empty unless the resolver
\* returned success with non-empty content.
C10_PersonalisationNeverFatal ==
    \A r \in Requests :
        /\ (Made(r, "get_personalised_content") /\ pc[r] \in Terminal) => pc[r] = "Returned"
        /\ pc[r] = "Returned" =>
               /\ <<response[r].summary, response[r].links>> =
                      KnowledgePart(retrieval_result[r])
               /\ response[r].personalised = PersonalisedPart(personalisation_result[r])

\* C10 happens: the resolver raised and the response still carries the
\* retrieved summary and links
C10_Witness ==
    \E r \in Requests :
        /\ pc[r] = "Returned"
        /\ Made(r, "personalisation_error") \/ Made(r, "agent_error")
        /\ response[r].personalised = <<>>
        /\ response[r].summary # NO_SUMMARY
        /\ response[r].links # <<>>

\* C5: the assembled response takes summary and links (in their order) from
\* the retrieval result when there is one and its summary is not empty; in
\* every other case the summary is the sentinel text and links is empty.
\* So summary "Cloud computing offers X." with the one citation
\* "https://a.example/doc" and no personalisation gives exactly these.
C5_AssemblyFromRetrieval ==
    Done("assemble") =>
        LET result == unit.args.retrieval_result
        IN  /\ unit.result.personalised = unit.args.personalised_content
            /\ IF result # PyNone /\ Len(result.summary) > 0
               THEN /\ unit.result.summary = result.summary
                    /\ unit.result.links = result.citations
               ELSE /\ unit.result.summary = NO_SUMMARY
                    /\ unit.result.links = <<>>

\* C5 happens: the example of the claim is assembled
C5_Witness ==
    /\ Done("assemble")
    /\ unit.args = [retrieval_result |-> RetrievalResult(TEXT_CLOUD, <<URI_B>>, 5),
                    personalised_content |-> <<>>]
    /\ unit.result = [personalised |-> <<>>, summary |-> TEXT_CLOUD, links |-> <<URI_B>>]

\* the references of a response, in order
ReferencesOf(api_response) ==
    api_response.citations[1].retrievedReferences
        \o api_response.citations[2].retrievedReferences

\* no reference has a null location
WellShaped(refs) ==
    \A i \in 1..Len(refs) :
        "location" \in DOMAIN refs[i] => refs[i].location.type = "dict"

\* the URI the location of a reference yields: that of the first of the
\* three shapes that is there, if it has one
LocationYield(ref) ==
    LET location == IF "location" \in DOMAIN ref THEN ref.location.v ELSE EmptyDict
        shape == IF "s3Location" \in DOMAIN location THEN <<"s3Location", "uri">>
                 ELSE IF "webLocation" \in DOMAIN location THEN <<"webLocation", "url">>
                 ELSE IF "confluenceLocation" \in DOMAIN location
                 THEN <<"confluenceLocation", "url">>
                 ELSE <<>>
    IN  IF shape = <<>> THEN <<>>
        ELSE IF shape[2] \notin DOMAIN location[shape[1]] THEN <<>>
        ELSE IF location[shape[1]][shape[2]] = <<>> THEN <<>>
        ELSE <<location[shape[1]][shape[2]]>>

IsLink(item) ==
    /\ lower(item[1]) \in Range(METADATA_URL_KEYS)
    /\ item[2].type = "str"
    /\ startswith(item[2].v, HTTP) \/ startswith(item[2].v, HTTPS)

\* the URIs the metadata of a reference yields, in order
MetadataYield(ref) ==
    IF "metadata" \in DOMAIN ref /\ ref.metadata.type = "dict"
    THEN LET links == SelectSeq(ref.metadata.v, IsLink)
         IN  [i \in 1..Len(links) |-> links[i][2].v]
    ELSE <<>>

\* the URIs all sources yield, in order, duplicates included
RECURSIVE Yielded(_)
Yielded(refs) ==
    IF refs = <<>> THEN <<>>
    ELSE LocationYield(Head(refs)) \o MetadataYield(Head(refs)) \o Yielded(Tail(refs))

NoDuplicates(seq) ==
    \A i, j \in 1..Len(seq) : seq[i] = seq[j] => i = j

\* seq without the later occurrences of its elements
FirstOccurrences(seq) ==
    LET first == {i \in 1..Len(seq) : \A j \in 1..(i - 1) : seq[j] # seq[i]}
        nth(k) == CHOOSE i \in first : Cardinality({j \in first : j <= i}) = k
    IN  [k \in 1..Cardinality(first) |-> seq[nth(k)]]

\* C6: for every reference list _extract_citations returns a sequence
\* without duplicates, the URIs standing in the order of their first
\* occurrence over all sources, locations and metadata together (so the
\* URIs a, b, a, c give a, b, c); deduplicating the result again changes
\* nothing.
C6_CitationsUniqueInFirstSeenOrder ==
    Done("_extract_citations") =>
        LET refs == ReferencesOf(unit.args)
        IN  /\ NoDuplicates(unit.result)
            /\ unique_citations(<<>>, unit.result, 1) = unit.result
            /\ WellShaped(refs) => unit.result = FirstOccurrences(Yielded(refs))

\* C6 happens: the references yield a, b, a, c and a, b, c is returned
C6_Witness ==
    /\ Done("_extract_citations")
    /\ WellShaped(ReferencesOf(unit.args))
    /\ Yielded(ReferencesOf(unit.args)) = <<URI_B, URI_A, URI_B, URI_C>>
    /\ unit.result = <<URI_B, URI_A, URI_C>>

\* the score of the claim, in tenths
ScoreInTenths(length, cited) ==
    IF length = 0 THEN 0
    ELSE 3 + (IF length > 100 THEN 2 ELSE 0) + (IF length > 300 THEN 1 ELSE 0)
           + (IF cited > 0 THEN 2 ELSE 0) + (IF cited > 2 THEN 1 ELSE 0)
           + (IF cited > 5 THEN 1 ELSE 0)

ScoreAsClaimed ==
    Done("_calculate_confidence_score") =>
        LET length == Len(unit.args.text)
            cited == Len(unit.args.citations)
        IN  /\ unit.result = ScoreInTenths(length, cited)
            /\ unit.result \in 0..10
            /\ (length = 50 /\ cited = 0) => unit.result = 3
            /\ (length = 350 /\ cited = 6) => unit.result = 10

\* a call with a longer text or with more citations scores no less
ScoreGrows ==
    (Done("_calculate_confidence_score") /\ Done("_calculate_confidence_score")') =>
        unit'.result >= unit.result

\* C7: the confidence score is, in tenths, 3 for a non-empty text, +2 above
\* 100 characters, +1 above 300, +2 with a citation, +1 above 2, +1 above 5;
\* it lies in [0, 1], is 0.3 for 50 characters and no citation, 1.0 for 350
\* characters and 6 citations, and never decreases when the text gets
\* longer or the citations more.
C7_ConfidenceMonotoneAndBounded == []ScoreAsClaimed /\ [][ScoreGrows]_vars

\* C7 happens: a text of 350 characters with 6 citations is scored 1.0
C7_Witness ==
    /\ Done("_calculate_confidence_score")
    /\ Len(unit.args.text) = 350
    /\ Len(unit.args.citations) = 6
    /\ unit.result = 10

\* the characters of [A-Za-z0-9_-]
IdCharacter(c) ==
    \/ ord(c) \in 48..57
    \/ ord(c) \in 65..90
    \/ ord(c) \in 97..122
    \/ c \in {"_", "-"}

\* C9: validate_user_id accepts a user id exactly when, trimmed, it is not
\* empty, has at most 255 characters and only characters of [A-Za-z0-9_-];
\* it then returns the trimmed id, and otherwise raises ValueError.
C9_UserIdAcceptedIffWellFormed ==
    Done("validate_user_id") =>
        LET trimmed == strip(unit.args.v)
            acceptable == /\ trimmed # <<>>
                          /\ Len(trimmed) <= MAX_USER_ID_LENGTH
                          /\ \A i \in 1..Len(trimmed) : IdCharacter(trimmed[i])
        IN  IF acceptable
            THEN unit.result = Return(trimmed)
            ELSE unit.result.raised /\ unit.result.exc = "ValueError"

\* the positions of a request inside get_personalised_content
InResolver == {"guards", "connect", "list_tools", "agent"}

\* C11: the connection to the gateway is open only while a request is inside
\* the with block of the resolver; when the resolver has returned, by an
\* early return, with no tools, with the agent's answer, with an empty
\* answer or by an exception, the connection is closed, and it stays closed
\* when the request completes.
C11_ConnectionScoped ==
    /\ mcp_open => \E r \in Requests : pc[r] \in {"list_tools", "agent"}
    /\ \A r \in Requests :
           (Made(r, "get_personalised_content") /\ pc[r] \notin InResolver) => ~mcp_open

\* C11 happens: the agent raised inside the open session and the resolver
\* has returned
C11_Witness ==
    \E r \in Requests :
        /\ Made(r, "connect")
        /\ Made(r, "agent_error")
        /\ pc[r] = "personalised"
        /\ ~mcp_open

\* knowledge base id, gateway endpoint and safety-policy id are all there
Complete(cfg) ==
    /\ cfg.KNOWLEDGE_BASE_ID # <<>>
    /\ cfg.GATEWAY_MCP_URL # <<>>
    /\ cfg.GUARDRAILS_ID # <<>>

\* C12: with one of the three required values missing, a request that has
\* left the configuration check stands in ErrorReturned with the
\* service-configuration-error summary, whatever its payload; its payload
\* was never parsed, its input never validated, no service was created and
\* neither the retriever nor the resolver was called.  A payload is parsed
\* only under a complete configuration.
C12_ConfigurationCheckedFirst ==
    \A r \in Requests :
        /\ (~Complete(config) /\ pc[r] \notin {"idle", "check_config"}) =>
               /\ pc[r] = "ErrorReturned"
               /\ response[r] = _create_error_response(CONFIG_ERROR)
               /\ request[r] = PyNone
               /\ sanitized_query[r] = PyNone
               /\ validated_user_id[r] = PyNone
               /\ calls[r] = <<>>
               /\ knowledge_service = PyNone
               /\ personalisation_service = PyNone
        /\ pc[r] \notin {"idle", "check_config", "ErrorReturned"} => Complete(config)

\* C12 happens: the safety-policy id alone is missing, the payload is no
\* mapping, and the request got the configuration error
C12_Witness ==
    \E r \in Requests :
        /\ config.KNOWLEDGE_BASE_ID # <<>>
        /\ config.GATEWAY_MCP_URL # <<>>
        /\ config.GUARDRAILS_ID = <<>>
        /\ payload[r] = PyNone
        /\ pc[r] = "ErrorReturned"
        /\ response[r].summary = CONFIG_ERROR

\* C13: a result of retrieve_and_generate with an empty summary has
\* confidence 0 and no citations.
C13_EmptySummaryHasNothing ==
    \A r \in Requests :
        (retrieval_result[r] # PyNone /\ retrieval_result[r].summary = <<>>) =>
            /\ retrieval_result[r].confidence_score = 0
            /\ retrieval_result[r].citations = <<>>

\* how often a call stands in a history
Count(history, name) == Cardinality({i \in DOMAIN history : history[i] = name})

\* the payload parses and the input validator accepts it
PassesValidation(r) ==
    LET parsed == SearchRequest(payload[r])
    IN  /\ ~parsed.raised
        /\ ~validate_search_query(PyStr(parsed.value.search_query)).raised
        /\ Truthy(parsed.value.user_id) => ~validate_user_id(parsed.value.user_id).raised

\* the retriever has been invoked and has finished
Retrieved(r) ==
    /\ Count(calls[r], "retrieve_and_generate") = 1
    /\ pc[r] \notin {"retrieve", "api_wait"}

Ended(r) == pc[r] \in Terminal

InputFaultSummaries ==
    {FORMAT_ERROR, PARSE_ERROR}
        \cup {INVALID_INPUT \o message :
                message \in {QUERY_NOT_STRING, QUERY_EMPTY, QUERY_TOO_LONG,
                             USER_ID_NOT_STRING, USER_ID_EMPTY, USER_ID_TOO_LONG,
                             USER_ID_BAD_CHARS}}

\* the request has ended and its payload did not parse or did not validate
InputFault(r) == Ended(r) /\ Complete(config) /\ ~PassesValidation(r)

InputFaultAnswered ==
    \A r \in Requests :
        InputFault(r) =>
            /\ pc[r] = "ErrorReturned"
            /\ response[r].personalised = <<>>
            /\ response[r].links = <<>>
            /\ response[r].summary \in InputFaultSummaries
            /\ calls[r] = <<>>
            /\ retrieval_result[r] = PyNone
            /\ personalisation_result[r] = PyNone

\* a request that ends with an input fault leaves the service instances as
\* they were
InputFaultCreatesNothing ==
    \A r \in Requests :
        (pc[r] \in {"parse", "validate"} /\ pc'[r] = "ErrorReturned") =>
            /\ knowledge_service' = knowledge_service
            /\ personalisation_service' = personalisation_service

\* C15: when the payload does not parse or the query or the user id does not
\* validate, invoke returns personalised "" and no links with one of the
\* fixed summaries, none of which holds text of the input; the retriever and
\* the resolver are not invoked and no service instance is created.
C15_InputFaultShortCircuits == []InputFaultAnswered /\ [][InputFaultCreatesNothing]_vars

\* C15 happens: the query validated, the user id did not, and the request
\* was answered with the invalid-characters message
C15_Witness ==
    \E r \in Requests :
        /\ pc[r] = "ErrorReturned"
        /\ request[r] # PyNone
        /\ request[r].user_id = PyStr(USER_AT)
        /\ sanitized_query[r] = PyStr(QUERY_CLOUD)
        /\ response[r].summary = INVALID_INPUT \o USER_ID_BAD_CHARS
        /\ calls[r] = <<>>

\* the request waits for the answer to an external call: the retrieval API,
\* tool discovery, the agent
WaitingOnExternal(r) == pc[r] \in {"api_wait", "list_tools", "agent"}

\* C16: while a request waits on the retrieval call, on tool discovery or on
\* the agent call, another request whose task is ready can start.
C16_ExternalCallsFreeTheLoop ==
    \A a, b \in InFlight :
        (a # b /\ WaitingOnExternal(a) /\ pc[b] = "ready") => ENABLED Start(b)

\* C17: every request that invoke has started on is eventually answered,
\* Returned or ErrorReturned, also when an external service never responds.
C17_EveryRequestAnswered ==
    \A r \in Requests : (pc[r] = "check_config") ~> Answered(r)

\* C18: the sanitised query that validate_search_query returned to invoke is
\* not blank and has at most 1000 characters, and a retrieval that invoke
\* asked for went to the API (the blank-query guard of the retriever was
\* not taken).
C18_SanitisedQueryNotBlank ==
    \A r \in Requests :
        /\ sanitized_query[r] # PyNone =>
               /\ strip(sanitized_query[r].v) # <<>>
               /\ Len(sanitized_query[r].v) <= MAX_QUERY_LENGTH
        /\ calls[r] # <<"retrieve_and_generate">>

\* the payload parses, its query validates, and it supplies a user id that
\* is empty after trimming
SuppliesBlankUserId(r) ==
    LET parsed == SearchRequest(payload[r])
    IN  /\ ~parsed.raised
        /\ ~validate_search_query(PyStr(parsed.value.search_query)).raised
        /\ parsed.value.user_id.type = "str"
        /\ strip(parsed.value.user_id.v) = <<>>

\* C19: a request with a valid query whose user id is the empty string or
\* only whitespace is, once validation is over, in ErrorReturned with the
\* empty-user-id message and has called neither the retriever nor the resolver.
C19_BlankUserIdRejected ==
    \A r \in Requests :
        (/\ Complete(config)
         /\ pc[r] \notin {"idle", "check_config", "parse", "validate"}
         /\ SuppliesBlankUserId(r)) =>
            /\ pc[r] = "ErrorReturned"
            /\ response[r] = _create_error_response(INVALID_INPUT \o USER_ID_EMPTY)
            /\ calls[r] = <<>>

====
